---------------------------- MODULE Spec2Model ----------------------------
(***************************************************************************)
(* A model of asana-git-hook.py: the hook that scans a commit message for  *)
(* Asana task ids and posts one comment per id.                            *)
(*                                                                         *)
(* Text is modelled as a sequence of one-character strings, so that the    *)
(* regular expressions, the URL rewriting and the comment formatting are   *)
(* computed character by character, as the Python code computes them.      *)
(***************************************************************************)
EXTENDS Naturals, Sequences, FiniteSets, TLC

(***************************************************************************)
(* Program constants.                                                      *)
(***************************************************************************)
\* \d{16} in each of the three patterns
IdLen == 16
\* commit_hash[:8]
ShortHashLen == 8
\* response.status_code == 201
Created == 201

(***************************************************************************)
(* Bounds of the model.                                                    *)
(***************************************************************************)
\* pieces per commit message in the extraction specification
MaxParts == 2
\* task references per commit message in the specification of a whole run
MaxIds == 3

(***************************************************************************)
(* Characters.                                                             *)
(***************************************************************************)
DIGITS == {"0","1","2","3","4","5","6","7","8","9"}
\* \s of the re module, over the characters the model uses
WHITESPACE == {" ", "\t", "\n"}

UpperToLower ==
    ("A" :> "a") @@ ("B" :> "b") @@ ("C" :> "c") @@ ("D" :> "d") @@
    ("E" :> "e") @@ ("F" :> "f") @@ ("G" :> "g") @@ ("H" :> "h") @@
    ("I" :> "i") @@ ("J" :> "j") @@ ("K" :> "k") @@ ("L" :> "l") @@
    ("M" :> "m") @@ ("N" :> "n") @@ ("O" :> "o") @@ ("P" :> "p") @@
    ("Q" :> "q") @@ ("R" :> "r") @@ ("S" :> "s") @@ ("T" :> "t") @@
    ("U" :> "u") @@ ("V" :> "v") @@ ("W" :> "w") @@ ("X" :> "x") @@
    ("Y" :> "y") @@ ("Z" :> "z")

\* re.IGNORECASE: characters are compared after case folding
Lower(c) == IF c \in DOMAIN UpperToLower THEN UpperToLower[c] ELSE c

\* the text made of n copies of the character c
Rep(c, n) == [k \in 1..n |-> c]

(***************************************************************************)
(* A backtracking matcher for the regular expressions of                   *)
(* extract_task_ids.  A pattern is a sequence of elements; every pattern   *)
(* of the program ends with its one capturing group, (\d{16}).             *)
(***************************************************************************)
\* the literal lit occurs in s at position i, ignoring case
IsAt(lit, s, i) ==
    /\ i + Len(lit) - 1 <= Len(s)
    /\ \A k \in 1..Len(lit) : Lower(s[i + k - 1]) = Lower(lit[k])

RECURSIVE RunLen(_, _, _)
\* the number of consecutive characters of cls in s from position i on
RunLen(cls, s, i) ==
    IF i <= Len(s) /\ s[i] \in cls THEN 1 + RunLen(cls, s, i + 1) ELSE 0

RECURSIVE AltCands(_, _, _, _)
\* (?:a|b|...): the alternatives that match at i, in the order written
AltCands(alts, k, s, i) ==
    IF k > Len(alts) THEN <<>>
    ELSE (IF IsAt(alts[k], s, i) THEN <<i + Len(alts[k])>> ELSE <<>>)
         \o AltCands(alts, k + 1, s, i)

\* The positions at which the match may continue after element e matched
\* at position i, in the order the backtracking matcher tries them.
Cands(e, s, i) ==
    CASE e.t = "alt"    -> AltCands(e.alts, 1, s, i)
      [] e.t = "plus"   -> LET n == RunLen(e.cls, s, i)
                           IN  [k \in 1..n |-> i + n + 1 - k]
      [] e.t = "opt"    -> IF IsAt(e.lit, s, i)
                           THEN <<i + Len(e.lit), i>> ELSE <<i>>
      [] e.t = "lit"    -> IF IsAt(e.lit, s, i)
                           THEN <<i + Len(e.lit)>> ELSE <<>>
      [] e.t = "class"  -> IF i <= Len(s) /\ s[i] \in e.cls
                           THEN <<i + 1>> ELSE <<>>
      [] e.t = "digits" -> IF /\ i + e.n - 1 <= Len(s)
                              /\ \A k \in i..(i + e.n - 1) : s[k] \in DIGITS
                           THEN <<i + e.n>> ELSE <<>>

RECURSIVE MatchFrom(_, _, _, _)
RECURSIVE TryCands(_, _, _, _, _)
\* The position after the match of pat[k..] at position i of s, or 0.
MatchFrom(pat, k, s, i) ==
    IF k > Len(pat) THEN i
    ELSE TryCands(pat, k, s, Cands(pat[k], s, i), 1)

TryCands(pat, k, s, c, j) ==
    IF j > Len(c) THEN 0
    ELSE LET r == MatchFrom(pat, k + 1, s, c[j])
         IN  IF r # 0 THEN r ELSE TryCands(pat, k, s, c, j + 1)

RECURSIVE FindIter(_, _, _)
\* re.finditer: the matches of pat in s from position pos on, left to
\* right and non-overlapping; group is match.group(1).
FindIter(pat, s, pos) ==
    IF pos > Len(s) THEN <<>>
    ELSE LET e == MatchFrom(pat, 1, s, pos)
         IN  IF e # 0
             THEN <<[start |-> pos, stop |-> e,
                     group |-> SubSeq(s, e - pat[Len(pat)].n, e - 1)]>>
                  \o FindIter(pat, s, e)
             ELSE FindIter(pat, s, pos + 1)

KEYWORDS ==
    << <<"f","i","x","e","s">>,
       <<"c","l","o","s","e","s">>,
       <<"r","e","s","o","l","v","e","s">>,
       <<"r","e","f","e","r","e","n","c","e","s">>,
       <<"r","e","f","s">>,
       <<"r","e">>,
       <<"s","e","e">>,
       <<"a","d","d","r","e","s","s","e","s">> >>

\* (?:fixes|...|addresses)\s+(?:asana:)?#?(\d{16})
KeywordPattern ==
    << [t |-> "alt", alts |-> KEYWORDS],
       [t |-> "plus", cls |-> WHITESPACE],
       [t |-> "opt", lit |-> <<"a","s","a","n","a",":">>],
       [t |-> "opt", lit |-> <<"#">>],
       [t |-> "digits", n |-> IdLen] >>

\* asana[:/](\d{16})
AsanaPattern ==
    << [t |-> "lit", lit |-> <<"a","s","a","n","a">>],
       [t |-> "class", cls |-> {":", "/"}],
       [t |-> "digits", n |-> IdLen] >>

\* #(\d{16})
HashPattern ==
    << [t |-> "lit", lit |-> <<"#">>],
       [t |-> "digits", n |-> IdLen] >>

\* a plausible bug: the bare '#' pattern is tried first
patterns_hash_first == <<HashPattern, KeywordPattern, AsanaPattern>>

\* the list `patterns`, in priority order
patterns == <<KeywordPattern, AsanaPattern, HashPattern>>

RECURSIVE ScanFrom(_, _)
\* Every match of the scan, in the order the two nested loops of
\* extract_task_ids visit them; pat is the index of the pattern.
ScanFrom(msg, p) ==
    IF p > Len(patterns) THEN <<>>
    ELSE LET ms == FindIter(patterns[p], msg, 1)
         IN  [k \in 1..Len(ms) |->
                 [pat |-> p, start |-> ms[k].start, group |-> ms[k].group]]
             \o ScanFrom(msg, p + 1)

Scan(msg) == ScanFrom(msg, 1)

\* x occurs in the sequence s
Contains(s, x) == \E k \in 1..Len(s) : s[k] = x

RECURSIVE Collect(_, _, _)
\* if task_id not in task_ids: task_ids.append(task_id)
Collect(ids, ms, k) ==
    IF k > Len(ms) THEN ids
    ELSE Collect(IF Contains(ids, ms[k].group) THEN ids
                 ELSE Append(ids, ms[k].group), ms, k + 1)

RECURSIVE CollectAll(_, _, _)
\* a plausible bug: the membership test is missing
CollectAll(ids, ms, k) ==
    IF k > Len(ms) THEN ids
    ELSE CollectAll(Append(ids, ms[k].group), ms, k + 1)

\* a plausible bug: every match is appended, seen before or not
extract_task_ids_no_dedup(commit_msg_) == CollectAll(<<>>, Scan(commit_msg_), 1)

extract_task_ids(commit_msg_) == Collect(<<>>, Scan(commit_msg_), 1)

(***************************************************************************)
(* Text helpers: the str methods the program uses.                         *)
(***************************************************************************)
\* s.startswith(p)
StartsWith(s, p) == Len(s) >= Len(p) /\ SubSeq(s, 1, Len(p)) = p

\* s.endswith(p)
EndsWith(s, p) ==
    Len(s) >= Len(p) /\ SubSeq(s, Len(s) - Len(p) + 1, Len(s)) = p

\* sub in s
Occurs(sub, s) ==
    \E i \in 1..(Len(s) + 1) :
        i + Len(sub) - 1 <= Len(s) /\ SubSeq(s, i, i + Len(sub) - 1) = sub

RECURSIVE ReplaceFrom(_, _, _, _)
ReplaceFrom(s, old, new, i) ==
    IF i > Len(s) THEN <<>>
    ELSE IF i + Len(old) - 1 <= Len(s) /\ SubSeq(s, i, i + Len(old) - 1) = old
         THEN new \o ReplaceFrom(s, old, new, i + Len(old))
         ELSE <<s[i]>> \o ReplaceFrom(s, old, new, i + 1)

\* s.replace(old, new): every occurrence, left to right
Replace(s, old, new) == ReplaceFrom(s, old, new, 1)

RECURSIVE LStrip(_)
LStrip(s) ==
    IF s # <<>> /\ Head(s) \in WHITESPACE THEN LStrip(Tail(s)) ELSE s

RECURSIVE RStrip(_)
RStrip(s) ==
    IF s # <<>> /\ s[Len(s)] \in WHITESPACE
    THEN RStrip(SubSeq(s, 1, Len(s) - 1)) ELSE s

\* s.strip()
Strip(s) == RStrip(LStrip(s))

\* s[:n]
Prefix(s, n) == SubSeq(s, 1, IF Len(s) < n THEN Len(s) ELSE n)

(***************************************************************************)
(* get_commit_info: the clean-up of the remote URL.                        *)
(***************************************************************************)
NOT_AVAILABLE == <<"N","o","t"," ","a","v","a","i","l","a","b","l","e">>
GIT_AT == <<"g","i","t","@">>
HTTPS == <<"h","t","t","p","s",":","/","/">>
DOT_GIT == <<".","g","i","t">>

\* a plausible bug: the '.git' suffix is stripped from every URL
clean_repo_url_strip_all(url) ==
    LET u == IF StartsWith(url, GIT_AT)
             THEN Replace(Replace(url, <<":">>, <<"/">>), GIT_AT, HTTPS)
             ELSE url
    IN  IF EndsWith(u, DOT_GIT) THEN SubSeq(u, 1, Len(u) - 4) ELSE u

\* lines 91-94, applied to the stripped output of git config
clean_repo_url(url) ==
    IF StartsWith(url, GIT_AT)
    THEN LET u == Replace(Replace(url, <<":">>, <<"/">>), GIT_AT, HTTPS)
         IN  IF EndsWith(u, DOT_GIT) THEN SubSeq(u, 1, Len(u) - 4) ELSE u
    ELSE url

\* The output of `git config --get remote.origin.url`: out.ok is FALSE
\* when the command fails (CalledProcessError).
read_remote(out) == IF out.ok THEN Strip(out.text) ELSE NOT_AVAILABLE

(***************************************************************************)
(* add_comment_to_task: the comment text.                                  *)
(***************************************************************************)
GITHUB == <<"g","i","t","h","u","b",".","c","o","m">>
GITLAB == <<"g","i","t","l","a","b",".","c","o","m">>
HEADER ==
    <<"G","i","t"," ","c","o","m","m","i","t"," ","r","e","g","i","s","t",
      "e","r","e","d",":","\n","\n">>
COMMIT_LABEL == <<"*","*","C","o","m","m","i","t",":","*","*"," ">>
MESSAGE_LABEL == <<"*","*","M","e","s","s","a","g","e",":","*","*"," ">>
LINK_LABEL ==
    <<"*","*","L","i","n","k",":","*","*"," ","[","V","i","e","w"," ",
      "c","o","m","m","i","t","]","(">>
REPOSITORY_LABEL ==
    <<"*","*","R","e","p","o","s","i","t","o","r","y",":","*","*"," ">>
COMMIT_PATH == <<"/","c","o","m","m","i","t","/">>
NL == <<"\n">>

\* a plausible bug: only GitHub remotes get a link
comment_ending_github_only(commit_hash_, repo_url_) ==
    IF repo_url_ # NOT_AVAILABLE
    THEN IF Occurs(GITHUB, repo_url_)
         THEN LINK_LABEL \o repo_url_ \o COMMIT_PATH \o commit_hash_
              \o <<")">> \o NL
         ELSE REPOSITORY_LABEL \o repo_url_ \o NL
    ELSE <<>>

\* lines 114-120
comment_ending(commit_hash_, repo_url_) ==
    IF repo_url_ # NOT_AVAILABLE
    THEN IF Occurs(GITHUB, repo_url_) \/ Occurs(GITLAB, repo_url_)
         THEN LINK_LABEL \o repo_url_ \o COMMIT_PATH \o commit_hash_
              \o <<")">> \o NL
         ELSE REPOSITORY_LABEL \o repo_url_ \o NL
    ELSE <<>>

\* lines 110-120
compose_comment(commit_hash_, commit_msg_, repo_url_) ==
    HEADER
    \o COMMIT_LABEL \o Prefix(commit_hash_, ShortHashLen) \o NL
    \o MESSAGE_LABEL \o commit_msg_ \o NL
    \o comment_ending(commit_hash_, repo_url_)

(***************************************************************************)
(* get_asana_token.  A command output is [ok, text]: ok is FALSE when the  *)
(* value is absent (an unset environment variable, a failed command).      *)
(***************************************************************************)
ABSENT == [ok |-> FALSE, text |-> <<>>]
Present(t) == [ok |-> TRUE, text |-> t]

\* a plausible bug: whatever git config printed is returned, empty or not
get_asana_token_unchecked(env_token, cfg_token) ==
    IF env_token.ok /\ env_token.text # <<>> THEN env_token
    ELSE Present(Strip(cfg_token.text))

\* lines 20-41: the token, or ABSENT where the function calls sys.exit(1)
get_asana_token(env_token, cfg_token) ==
    IF env_token.ok /\ env_token.text # <<>> THEN env_token
    ELSE IF cfg_token.ok /\ Strip(cfg_token.text) # <<>>
         THEN Present(Strip(cfg_token.text))
         ELSE ABSENT

(***************************************************************************)
(* add_comment_to_task: the request and the reading of the response.       *)
(* A response is [exc, status, body]: exc is TRUE when requests.post       *)
(* raises; body names the shape of the response body.                      *)
(***************************************************************************)
\* line 136: the value of error_msg, or "raise" when the expression raises
error_msg(body) ==
    CASE body = "not_json"      -> "raise"
      [] body = "no_errors"     -> "Unknown error"
      [] body = "errors_empty"  -> "raise"
      [] body = "errors_no_msg" -> "None"
      [] body = "errors_msg"    -> "message"

\* a plausible bug: only the exception of requests.post is caught
read_response_narrow_except(resp) ==
    IF resp.exc THEN [ret |-> "False", err |-> "exception"]
    ELSE IF resp.status = Created THEN [ret |-> "True", err |-> ""]
    ELSE IF error_msg(resp.body) = "raise"
         THEN [ret |-> "raise", err |-> "exception"]
         ELSE [ret |-> "False", err |-> error_msg(resp.body)]

\* lines 130-141: what add_comment_to_task returns, and what it writes to
\* stderr; ret is "raise" when an exception leaves the function.
read_response(resp) ==
    IF resp.exc THEN [ret |-> "False", err |-> "exception"]
    ELSE IF resp.status = Created THEN [ret |-> "True", err |-> ""]
    ELSE IF error_msg(resp.body) = "raise"
         THEN [ret |-> "False", err |-> "exception"]
         ELSE [ret |-> "False", err |-> error_msg(resp.body)]

(***************************************************************************)
(* Inputs.                                                                 *)
(***************************************************************************)
ID_A == Rep("1", IdLen)
ID_B == Rep("2", IdLen)
\* one digit too few, one digit too many
SHORT_RUN == Rep("5", IdLen - 1)
LONG_RUN == Rep("3", IdLen) \o <<"4">>

FIXES == <<"F","i","x","e","s"," ","#">>
ASANA_SLASH == <<"a","s","a","n","a","/">>

\* the pieces commit messages are made of: a task id in each notation,
\* digit runs that are too short or too long, bare digits, filler
Pieces ==
    { <<"#">> \o ID_A,
      <<"#">> \o ID_B,
      <<"#">> \o LONG_RUN,
      <<"#">> \o SHORT_RUN,
      FIXES \o ID_A,
      FIXES \o ID_B,
      <<"R","E"," ","\t","a","s","a","n","a",":">> \o ID_A,
      <<"r","e","f","s"," ">> \o SHORT_RUN,
      ASANA_SLASH \o ID_A,
      ASANA_SLASH \o LONG_RUN,
      <<"s","e","e","\n">>,
      <<"#">>,
      <<" ","x">>,
      ID_B }

RECURSIVE Texts(_, _)
\* the concatenations of at most n pieces
Texts(pieces, n) ==
    IF n = 0 THEN {<<>>}
    ELSE LET shorter == Texts(pieces, n - 1)
         IN  shorter \cup {t \o p : t \in shorter, p \in pieces}

Messages == Texts(Pieces, MaxParts)

\* The k-th task reference of the messages of a whole run: its notation
\* changes with k, its sixteen digits are k repeated.
Notations ==
    << <<"#">>,
       <<"F","i","x","e","s"," ","#">>,
       <<"a","s","a","n","a",":">> >>
Digit == <<"1","2","3","4","5","6","7","8","9">>
Reference(k) == Notations[((k - 1) % 3) + 1] \o Rep(Digit[k], IdLen) \o <<" ">>

RECURSIVE Join(_, _)
\* the references chosen by picked, in the order of their numbers
Join(picked, k) ==
    IF k > MaxIds THEN <<>>
    ELSE (IF k \in picked THEN Reference(k) ELSE <<>>) \o Join(picked, k + 1)

\* what the commit message file, or git log, holds
MainMessages ==
    {lead \o Join(picked, 1) \o NL :
        lead \in {<<>>, <<" ","x"," ">>, <<"#">> \o SHORT_RUN \o <<" ">>},
        picked \in SUBSET (1..MaxIds)}

HASH == <<"a","b","c","d","e","f","1","2","3","4","5","6","7","8","9","0">>
PLACEHOLDER_HASH == <<"c","u","r","r","e","n","t"," ","c","o","m","m","i","t">>
Hashes == {HASH, PLACEHOLDER_HASH, <<"a","b","c">>}

Hosts == {GITHUB, GITLAB, <<"e","x","a","m","p","l","e",".","c","o","m">>}
Paths == { <<"a","c","m","e","/","w","i","d","g","e","t">>,
           <<"g","i","t","h","u","b",".","c","o","m","/","w">> }
Schemes == {GIT_AT, HTTPS, <<"s","s","h",":","/","/">> \o GIT_AT}
Suffixes == {<<>>, DOT_GIT, DOT_GIT \o DOT_GIT}

Urls ==
    {s \o h \o c \o p \o x :
        s \in Schemes, h \in Hosts, c \in {<<":">>, <<"/">>},
        p \in Paths, x \in Suffixes}

SSH_URL == GIT_AT \o GITHUB \o <<":">> \o <<"a","c","m","e","/","w","i","d","g","e","t">> \o DOT_GIT

MainRemotes ==
    { ABSENT,
      Present(SSH_URL \o NL),
      Present(HTTPS \o GITLAB \o <<"/","w">> \o DOT_GIT \o NL),
      Present(HTTPS \o <<"e","x",".","o","r","g","/","w">> \o NL) }

\* the environment variable and the output of git config, together
Credentials ==
    { [env_token |-> ABSENT,            cfg_token |-> ABSENT],
      [env_token |-> Present(<<>>),     cfg_token |-> Present(NL)],
      [env_token |-> Present(<<"E">>),  cfg_token |-> ABSENT],
      [env_token |-> Present(<<>>),     cfg_token |-> Present(<<"C">> \o NL)] }

Responses ==
    { [exc |-> TRUE,  status |-> 0,   body |-> "none"],
      [exc |-> FALSE, status |-> 201, body |-> "no_errors"],
      [exc |-> FALSE, status |-> 200, body |-> "no_errors"],
      [exc |-> FALSE, status |-> 403, body |-> "errors_msg"],
      [exc |-> FALSE, status |-> 404, body |-> "errors_no_msg"],
      [exc |-> FALSE, status |-> 400, body |-> "errors_empty"],
      [exc |-> FALSE, status |-> 500, body |-> "not_json"] }

\* lines 85-96: the repo_url that get_commit_info returns
commit_info_url(out) ==
    IF out.ok THEN clean_repo_url(Strip(out.text)) ELSE NOT_AVAILABLE

(***************************************************************************)
(* State.                                                                  *)
(***************************************************************************)
VARIABLES
    world,         \* what the process finds: arguments, git, environment
    pc,            \* the position of main
    commit_msg,    \* local of main
    commit_hash,   \* local of main
    repo_url,      \* local of main
    task_ids,      \* local of main
    idx,           \* the number of iterations of the for loop completed
    success,       \* local of main
    comment_text,  \* local of the last call of add_comment_to_task
    posts,         \* the requests sent by requests.post, in order
    results,       \* what each call of add_comment_to_task returned
    events,        \* the order of: extraction, token look-ups, requests
    matches,       \* the matches re.finditer yielded, in scan order
    exit_code      \* <<>> while running, then <<status>>

vars == <<world, pc, commit_msg, commit_hash, repo_url, task_ids, idx,
          success, comment_text, posts, results, events, matches,
          exit_code>>

\* a local that has not been assigned yet
UNBOUND == <<"<unbound>">>

Locals0 ==
    /\ commit_msg = UNBOUND
    /\ commit_hash = UNBOUND
    /\ repo_url = UNBOUND
    /\ task_ids = <<>>
    /\ idx = 0
    /\ success = TRUE
    /\ comment_text = UNBOUND
    /\ posts = <<>>
    /\ results = <<>>
    /\ events = <<>>
    /\ matches = <<>>
    /\ exit_code = <<>>

Worlds ==
    {[file |-> f, msg |-> m, hash |-> HASH \o NL, remote |-> r,
      env_token |-> c.env_token, cfg_token |-> c.cfg_token] :
        f \in BOOLEAN, m \in MainMessages, r \in MainRemotes,
        c \in Credentials}

Init ==
    /\ world \in Worlds
    /\ pc = "start"
    /\ Locals0

(***************************************************************************)
(* main.                                                                   *)
(***************************************************************************)
\* a plausible bug: a message without task ids is reported as a failure
after_extract_failing(ids) ==
    IF ids = <<>> THEN [pc |-> "done", exit_code |-> <<1>>]
    ELSE [pc |-> "remote", exit_code |-> <<>>]

\* lines 167-169: `if not task_ids: return 0`, else main goes on
after_extract(ids) ==
    IF ids = <<>> THEN [pc |-> "done", exit_code |-> <<0>>]
    ELSE [pc |-> "remote", exit_code |-> <<>>]

\* a plausible bug: `success = add_comment_to_task(...)`
aggregate_last(success_, returned) == returned

\* lines 183-184: `if not add_comment_to_task(...): success = False`
aggregate(success_, returned) == IF returned THEN success_ ELSE FALSE

\* line 186
exit_status(success_) == IF success_ THEN <<0>> ELSE <<1>>

\* lines 154-159: called as a commit-msg hook, with the message file
ReadMessageFile ==
    /\ pc = "start"
    /\ world.file
    /\ commit_msg' = Strip(world.msg)
    /\ commit_hash' = PLACEHOLDER_HASH
    /\ pc' = "extract"
    /\ UNCHANGED <<world, repo_url, task_ids, idx, success, comment_text,
                   posts, results, events, matches, exit_code>>

\* lines 160-162 and get_commit_info, lines 70-98
GetCommitInfo ==
    /\ pc = "start"
    /\ ~world.file
    /\ commit_msg' = Strip(world.msg)
    /\ commit_hash' = Strip(world.hash)
    /\ repo_url' = commit_info_url(world.remote)
    /\ pc' = "extract"
    /\ UNCHANGED <<world, task_ids, idx, success, comment_text,
                   posts, results, events, matches, exit_code>>

\* lines 165-169
ExtractTaskIds ==
    /\ pc = "extract"
    /\ task_ids' = extract_task_ids(commit_msg)
    /\ matches' = Scan(commit_msg)
    /\ events' = Append(events, "extract")
    /\ pc' = after_extract(task_ids').pc
    /\ exit_code' = after_extract(task_ids').exit_code
    /\ UNCHANGED <<world, commit_msg, commit_hash, repo_url, idx, success,
                   comment_text, posts, results>>

\* lines 171-181
ReadRemoteUrl ==
    /\ pc = "remote"
    /\ repo_url' = read_remote(world.remote)
    /\ success' = TRUE
    /\ idx' = 0
    /\ pc' = "loop"
    /\ UNCHANGED <<world, commit_msg, commit_hash, task_ids, comment_text,
                   posts, results, events, matches, exit_code>>

\* lines 182-184 with add_comment_to_task, lines 101-141: one iteration of
\* the loop, the token found
AddCommentToTask(resp) ==
    /\ pc = "loop"
    /\ idx < Len(task_ids)
    /\ LET token == get_asana_token(world.env_token, world.cfg_token)
           text == compose_comment(commit_hash, commit_msg, repo_url)
           r == read_response(resp)
       IN  /\ token.ok
           /\ comment_text' = text
           /\ posts' = Append(posts, [task_id |-> task_ids[idx + 1],
                                      token |-> token.text,
                                      repo_url |-> repo_url,
                                      text |-> text,
                                      resp |-> resp])
           /\ results' = Append(results, r)
           /\ success' = aggregate(success, r.ret = "True")
           /\ pc' = IF r.ret = "raise" THEN "crashed" ELSE "loop"
           /\ exit_code' = IF r.ret = "raise" THEN <<1>> ELSE exit_code
    /\ idx' = idx + 1
    /\ events' = events \o <<"token", "post">>
    /\ UNCHANGED <<world, commit_msg, commit_hash, repo_url, task_ids,
                   matches>>

\* line 103 with get_asana_token, lines 38-41: sys.exit(1)
ExitWithoutToken ==
    /\ pc = "loop"
    /\ idx < Len(task_ids)
    /\ ~get_asana_token(world.env_token, world.cfg_token).ok
    /\ pc' = "aborted"
    /\ exit_code' = <<1>>
    /\ events' = Append(events, "token")
    /\ UNCHANGED <<world, commit_msg, commit_hash, repo_url, task_ids, idx,
                   success, comment_text, posts, results, matches>>

\* line 186
Return ==
    /\ pc = "loop"
    /\ idx = Len(task_ids)
    /\ pc' = "done"
    /\ exit_code' = exit_status(success)
    /\ UNCHANGED <<world, commit_msg, commit_hash, repo_url, task_ids, idx,
                   success, comment_text, posts, results, events, matches>>

Next ==
    \/ ReadMessageFile
    \/ GetCommitInfo
    \/ ExtractTaskIds
    \/ ReadRemoteUrl
    \/ \E resp \in Responses : AddCommentToTask(resp)
    \/ ExitWithoutToken
    \/ Return

Spec == Init /\ [][Next]_vars

(***************************************************************************)
(* extract_task_ids alone, over a larger set of messages.                  *)
(***************************************************************************)
NoWorld ==
    [file |-> FALSE, msg |-> <<>>, hash |-> <<>>, remote |-> ABSENT,
     env_token |-> ABSENT, cfg_token |-> ABSENT]

InitExtract ==
    /\ world = NoWorld
    /\ pc = "message"
    /\ commit_msg \in Messages
    /\ commit_hash = UNBOUND
    /\ repo_url = UNBOUND
    /\ task_ids = <<>>
    /\ idx = 0
    /\ success = TRUE
    /\ comment_text = UNBOUND
    /\ posts = <<>>
    /\ results = <<>>
    /\ events = <<>>
    /\ matches = <<>>
    /\ exit_code = <<>>

ApplyExtract ==
    /\ pc = "message"
    /\ task_ids' = extract_task_ids(commit_msg)
    /\ matches' = Scan(commit_msg)
    /\ pc' = "extracted"
    /\ UNCHANGED <<world, commit_msg, commit_hash, repo_url, idx, success,
                   comment_text, posts, results, events, exit_code>>

NextExtract == ApplyExtract

SpecExtract == InitExtract /\ [][NextExtract]_vars

(***************************************************************************)
(* The URL clean-up of get_commit_info and the comment text of             *)
(* add_comment_to_task alone, over a larger set of URLs and hashes.        *)
(***************************************************************************)
UrlOutputs == {ABSENT} \cup {Present(u \o NL) : u \in Urls}

InitUrl ==
    /\ world \in [file : {FALSE}, msg : {<<>>}, hash : {<<>>},
                  remote : UrlOutputs,
                  env_token : {ABSENT}, cfg_token : {ABSENT}]
    /\ pc = "url"
    /\ commit_msg = <<"F","i","x","e","s"," ","#">> \o ID_A
    /\ commit_hash \in Hashes
    /\ repo_url = UNBOUND
    /\ task_ids = <<>>
    /\ idx = 0
    /\ success = TRUE
    /\ comment_text = UNBOUND
    /\ posts = <<>>
    /\ results = <<>>
    /\ events = <<>>
    /\ matches = <<>>
    /\ exit_code = <<>>

\* lines 85-96
ApplyCommitInfoUrl ==
    /\ pc = "url"
    /\ repo_url' = commit_info_url(world.remote)
    /\ pc' = "cleaned"
    /\ UNCHANGED <<world, commit_msg, commit_hash, task_ids, idx, success,
                   comment_text, posts, results, events, matches, exit_code>>

\* lines 172-178
ApplyReadRemote ==
    /\ pc = "url"
    /\ repo_url' = read_remote(world.remote)
    /\ pc' = "raw"
    /\ UNCHANGED <<world, commit_msg, commit_hash, task_ids, idx, success,
                   comment_text, posts, results, events, matches, exit_code>>

\* lines 110-120
ApplyCompose ==
    /\ pc \in {"cleaned", "raw"}
    /\ comment_text' = compose_comment(commit_hash, commit_msg, repo_url)
    /\ pc' = "composed"
    /\ UNCHANGED <<world, commit_msg, commit_hash, repo_url, task_ids, idx,
                   success, posts, results, events, matches, exit_code>>

NextUrl ==
    \/ ApplyCommitInfoUrl
    \/ ApplyReadRemote
    \/ ApplyCompose

SpecUrl == InitUrl /\ [][NextUrl]_vars

(***************************************************************************)
(* Properties.                                                             *)
(***************************************************************************)
\* the set of the elements of a sequence
Range(s) == {s[k] : k \in 1..Len(s)}

NoDuplicates(s) == \A i, j \in 1..Len(s) : s[i] = s[j] => i = j

Terminated == pc \in {"done", "aborted", "crashed"}

\* Neither the environment nor git config holds a non-empty token.
NoCredential ==
    /\ ~world.env_token.ok \/ world.env_token.text = <<>>
    /\ ~world.cfg_token.ok \/ Range(world.cfg_token.text) \subseteq WHITESPACE

\* the request of the k-th call got a 201 response
Got201(k) == ~posts[k].resp.exc /\ posts[k].resp.status = 201

\* C1: In a run that returns from main with a non-empty identifier list,
\* the Submitter was invoked once for every identifier, in order, whatever
\* the earlier outcomes were, and the exit status is 1 if and only if at
\* least one invocation returned False, and 0 otherwise.
C1_BestEffortAggregate ==
    /\ Len(posts) = idx /\ Len(results) = idx
    /\ \A k \in 1..idx : posts[k].task_id = task_ids[k]
    /\ (pc = "done" /\ task_ids # <<>>) =>
          /\ idx = Len(task_ids)
          /\ exit_code = <<1>> <=> \E k \in 1..idx : results[k].ret = "False"
          /\ exit_code = <<0>> <=> \A k \in 1..idx : results[k].ret = "True"

\* A finished run over several identifiers whose first submission failed
\* and whose later one succeeded.
C1_Witness ==
    /\ pc = "done"
    /\ Len(task_ids) = 3
    /\ results[1].ret = "False"
    /\ results[2].ret = "True"
    /\ results[3].ret = "True"
    /\ Len(posts) = 3
    /\ exit_code = <<1>>

\* C2, as claimed: without a credential the run fails, and it does so
\* before the Extractor has run and before any request, whatever the
\* commit message is.
C2_AbortBeforeExtraction ==
    NoCredential =>
        /\ ~Contains(events, "extract")
        /\ posts = <<>>
        /\ Terminated => exit_code = <<1>>

\* C2, amended: without a credential no request is ever sent; a run whose
\* message holds a task id ends in sys.exit(1) at the first call of the
\* Submitter, after the Extractor has run; a run whose message holds no
\* task id returns 0 and never looks the credential up.
C2_AbortAtFirstSubmission ==
    NoCredential =>
        /\ posts = <<>>
        /\ idx = 0
        /\ pc # "crashed"
        /\ pc = "aborted" =>
              /\ task_ids # <<>>
              /\ exit_code = <<1>>
              /\ events = <<"extract", "token">>
        /\ pc = "done" =>
              /\ task_ids = <<>>
              /\ exit_code = <<0>>
              /\ events = <<"extract">>

\* A run without a credential that was stopped at its first submission.
C2_Witness ==
    /\ NoCredential
    /\ pc = "aborted"
    /\ task_ids # <<>>
    /\ world.cfg_token.ok

\* C3: Once main is past the extraction of a message that no pattern
\* matches, the identifier list is empty, main has returned 0, and no
\* token was looked up and no request sent.
C3_NoMatchIsSuccess ==
    (pc \notin {"start", "extract"} /\ matches = <<>>) =>
        /\ task_ids = <<>>
        /\ pc = "done"
        /\ exit_code = <<0>>
        /\ posts = <<>>
        /\ ~Contains(events, "token")

\* A finished run over a message that holds '#' and fifteen digits only.
C3_Witness ==
    /\ pc = "done"
    /\ commit_msg = <<"#">> \o SHORT_RUN
    /\ matches = <<>>
    /\ exit_code = <<0>>

\* C9: Every call of the Submitter returned True or False, True exactly
\* when the response had status 201, and no exception left the call.
C9_OnlyCreatedSucceeds ==
    /\ pc # "crashed"
    /\ \A k \in 1..Len(results) :
          /\ results[k].ret \in {"True", "False"}
          /\ results[k].ret = "True" <=> Got201(k)

\* A run that went on to its second submission after a response whose
\* errors array was empty, and one that was not JSON.
C9_Witness ==
    /\ Len(results) >= 2
    /\ posts[1].resp.body = "errors_empty"
    /\ posts[2].resp.body = "not_json"
    /\ results[1].ret = "False"
    /\ pc = "done"

\* C7, as claimed: the repository URL handed to the Composer is the
\* cleaned form of the remote URL, the one get_commit_info computes.
C7_ComposerGetsCleanUrl ==
    \A k \in 1..Len(posts) :
        posts[k].repo_url = commit_info_url(world.remote)

(***************************************************************************)
(* Properties of extract_task_ids.                                         *)
(***************************************************************************)
Groups(ms) == {ms[k].group : k \in 1..Len(ms)}

\* the least element of a non-empty set of numbers
Least(S) == CHOOSE n \in S : \A m \in S : n <= m

\* the start of the leftmost match, by any pattern, that captured id
FirstStart(id) ==
    Least({matches[k].start : k \in {j \in 1..Len(matches) : matches[j].group = id}})

\* the index in the scan of the first match that captured id
FirstIndex(id) == Least({k \in 1..Len(matches) : matches[k].group = id})

\* the start of the leftmost match among ms that captured id
StartAmong(ms, id) ==
    Least({ms[k].start : k \in {j \in 1..Len(ms) : ms[j].group = id}})

\* C4, as claimed: two distinct identifiers come out in the order of the
\* text positions of their first matches.  (No two notations can match at
\* the same position, so the order of the positions is always strict.)
C4_TextOrder ==
    (pc = "extracted" /\ Cardinality(Groups(matches)) = 2) =>
        /\ Len(task_ids) = 2
        /\ Range(task_ids) = Groups(matches)
        /\ FirstStart(task_ids[1]) < FirstStart(task_ids[2])

\* C4, amended: every identifier that some notation captures is returned,
\* ordered first by the priority of the first notation capturing it
\* (keyword, then asana, then bare '#') and, within one notation, by the
\* text position of its first match.
C4_PriorityOrder ==
    pc = "extracted" =>
        LET found == << FindIter(KeywordPattern, commit_msg, 1),
                        FindIter(AsanaPattern, commit_msg, 1),
                        FindIter(HashPattern, commit_msg, 1) >>
            rank == [id \in Range(task_ids) |->
                        IF id \in Groups(found[1]) THEN 1
                        ELSE IF id \in Groups(found[2]) THEN 2 ELSE 3]
        IN  /\ Range(task_ids) =
                  Groups(found[1]) \cup Groups(found[2]) \cup Groups(found[3])
            /\ \A i, j \in 1..Len(task_ids) :
                  i < j =>
                     \/ rank[task_ids[i]] < rank[task_ids[j]]
                     \/ /\ rank[task_ids[i]] = rank[task_ids[j]]
                        /\ StartAmong(found[rank[task_ids[i]]], task_ids[i])
                           < StartAmong(found[rank[task_ids[j]]], task_ids[j])

\* '#1111111111111111Fixes #2222222222222222': the identifier that comes
\* second in the text is returned first.
C4_Witness ==
    /\ pc = "extracted"
    /\ commit_msg = <<"#">> \o ID_A \o FIXES \o ID_B
    /\ task_ids = <<ID_B, ID_A>>

\* the digits at i..i+n-1 of s are a whole run: no digit before or after
MaximalRun(s, i, n) ==
    /\ i = 1 \/ s[i - 1] \notin DIGITS
    /\ RunLen(DIGITS, s, i) = n

\* C5, as claimed: every identifier returned is a whole run of exactly
\* sixteen digits of the message; a longer run contributes nothing.
C5_ExactLength ==
    pc = "extracted" =>
        \A k \in 1..Len(task_ids) :
            \E i \in 1..Len(commit_msg) :
                /\ MaximalRun(commit_msg, i, IdLen)
                /\ SubSeq(commit_msg, i, i + IdLen - 1) = task_ids[k]

\* C6: The list returned holds no identifier twice, holds exactly the
\* identifiers the scan captured, and orders them by their first match in
\* the scan.
C6_FirstOccurrenceOnly ==
    pc = "extracted" =>
        /\ NoDuplicates(task_ids)
        /\ Range(task_ids) = Groups(matches)
        /\ \A i, j \in 1..Len(task_ids) :
              i < j => FirstIndex(task_ids[i]) < FirstIndex(task_ids[j])

\* 'Fixes #1111111111111111asana/1111111111111111': one identifier, which
\* the keyword, the asana and the bare '#' notation all captured.
C6_Witness ==
    /\ pc = "extracted"
    /\ task_ids = <<ID_A>>
    /\ commit_msg = FIXES \o ID_A \o ASANA_SLASH \o ID_A
    /\ {matches[k].pat : k \in 1..Len(matches)} = {1, 2, 3}

(***************************************************************************)
(* Properties of the URL clean-up and of the comment text.                 *)
(***************************************************************************)
\* the output of git config, stripped
RawUrl == Strip(world.remote.text)

\* 'git@' replaced by 'https://' and every ':' by '/'
Rewritten(raw) ==
    HTTPS \o [k \in 1..(Len(raw) - 4) |->
                 IF raw[k + 4] = ":" THEN "/" ELSE raw[k + 4]]

WithoutDotGit(u) ==
    IF EndsWith(u, DOT_GIT) THEN SubSeq(u, 1, Len(u) - 4) ELSE u

\* C8, as claimed: one trailing '.git' is stripped from every URL that
\* ends with it, SSH-style or not.
C8_StripsEveryUrl ==
    (pc = "cleaned" /\ world.remote.ok) =>
        repo_url = WithoutDotGit(IF StartsWith(RawUrl, GIT_AT)
                                 THEN Rewritten(RawUrl) ELSE RawUrl)

\* C8, amended: one trailing '.git' is stripped from a URL only when the
\* URL is SSH-style (starts with 'git@'), after its rewriting to
\* https://; every other URL is returned as it is, '.git' suffix included.
C8_StripsSshUrlOnly ==
    (pc = "cleaned" /\ world.remote.ok) =>
        repo_url = IF StartsWith(RawUrl, GIT_AT)
                   THEN WithoutDotGit(Rewritten(RawUrl))
                   ELSE RawUrl

\* git@github.com:acme/widget.git has become https://github.com/acme/widget
C8_Witness ==
    /\ pc = "cleaned"
    /\ RawUrl = SSH_URL
    /\ repo_url = HTTPS \o GITHUB \o <<"/","a","c","m","e","/","w","i","d","g","e","t">>

\* the position of the first occurrence of sub in s, or 0
IndexOf(sub, s) ==
    IF Occurs(sub, s)
    THEN Least({i \in 1..Len(s) :
                   i + Len(sub) - 1 <= Len(s)
                   /\ SubSeq(s, i, i + Len(sub) - 1) = sub})
    ELSE 0

\* s from the end of the first occurrence of sub on, or s without one
After(sub, s) ==
    IF IndexOf(sub, s) = 0 THEN s
    ELSE SubSeq(s, IndexOf(sub, s) + Len(sub), Len(s))

\* s up to the first occurrence of sub, or s without one
Before(sub, s) ==
    IF IndexOf(sub, s) = 0 THEN s ELSE SubSeq(s, 1, IndexOf(sub, s) - 1)

\* the host of a URL: after the scheme and the user, up to ':' or '/'
Host(url) ==
    Before(<<":">>, After(<<"@">>, Before(<<"/">>, After(<<":","/","/">>, url))))

\* what compose_comment put after the 'Message' line
Ending ==
    LET short == IF Len(commit_hash) < ShortHashLen
                 THEN Len(commit_hash) ELSE ShortHashLen
        head == Len(HEADER) + Len(COMMIT_LABEL) + short + 1
                + Len(MESSAGE_LABEL) + Len(commit_msg) + 1
    IN  SubSeq(comment_text, head + 1, Len(comment_text))

LinkLine == LINK_LABEL \o repo_url \o COMMIT_PATH \o commit_hash \o <<")", "\n">>
RepositoryLine == REPOSITORY_LABEL \o repo_url \o NL

=============================================================================
